---------------------------- MODULE Spec2Model ----------------------------
(***************************************************************************)
(* A model of the violation rule engine of ai-compliance-vision:           *)
(* ViolationEngine (violation_engine.py) as constructed and called by      *)
(* create_app (app.py).                                                    *)
(*                                                                         *)
(* Numbers.  Confidences are floats in the code; the engine only copies    *)
(* them and takes min() of two of them, so they are modelled as integer    *)
(* percentages.  Bounding boxes hold integer pixel coordinates.  The code  *)
(* compares sqrt(dx^2 + dy^2) < 200.0 on the box centres ((x1+x2)/2,       *)
(* (y1+y2)/2); the model keeps the centres doubled (x1+x2, y1+y2) so that  *)
(* the halves stay integers and compares the squares, dx2^2 + dy2^2 <      *)
(* (2*200)^2, which decides the same comparison for integer coordinates    *)
(* (every intermediate value is exactly representable as a double and      *)
(* sqrt is monotone and exact on 200^2).                                   *)
(***************************************************************************)
EXTENDS Integers, Sequences, FiniteSets, TLC

VARIABLES
    fs,          \* the standards directory on disk: kind and files in enumeration order
    app,         \* position of create_app: "start", "loading", "serving", "failed"
    standards,   \* ViolationEngine.standards: an insertion-ordered dict, <<key, data>> pairs
    loadIdx,     \* position of _load_standards in the glob result
    calls,       \* one evaluate() frame per request slot
    lastLookup,  \* outcome of the latest _lookup_condition call made on its own
    remembered   \* an earlier completed evaluate call: its detections and outcome

vars == <<fs, app, standards, loadIdx, calls, lastLookup, remembered>>

None == [t |-> "none"]

(***************************************************************************)
(* Bounds of the model.                                                    *)
(***************************************************************************)
MaxFiles == 2        \* files in the standards directory (Spec)
MaxDets == 3         \* detections per evaluate call (SpecEval)
MaxOrderDets == 4    \* detections per evaluate call (SpecOrder)
MaxRepeatDets == 2   \* detections per evaluate call (SpecRepeat)
MaxConcDets == 2     \* detections per evaluate call (SpecConc)

(***************************************************************************)
(* Sequence helpers.                                                       *)
(***************************************************************************)
Range(s) == {s[i] : i \in DOMAIN s}

SeqsUpTo(S, n) == UNION {[1..k -> S] : k \in 0..n}

RECURSIVE Concat(_)
Concat(ss) == IF ss = <<>> THEN <<>> ELSE Head(ss) \o Concat(Tail(ss))

Reverse(s) == [i \in DOMAIN s |-> s[Len(s) + 1 - i]]

Count(s, x) == Cardinality({i \in DOMAIN s : s[i] = x})

(***************************************************************************)
(* JSON documents as json.load returns them.  A document is malformed (the *)
(* parse raises), or a value: an object (a dict, kept as its items in      *)
(* document order, keys unique) or something else (list, string, number).  *)
(* An entry of a rule document is again an object, kept as a record of the *)
(* fields it has, or something else.                                       *)
(***************************************************************************)
Malformed == [t |-> "malformed"]
JArr == [t |-> "arr"]
JStr == [t |-> "str"]
JObj(items) == [t |-> "obj", items |-> items]
Entry(fields) == [t |-> "obj", f |-> fields]

ProximityCondition == "forklift_pedestrian_proximity"

EntryForklift ==
    Entry([condition |-> ProximityCondition, description |-> "Struck-by hazard",
           severity |-> "high"])
EntryHardhat ==
    Entry([condition |-> "hardhat_missing", description |-> "Head protection required",
           severity |-> "high"])
EntryGuard ==
    Entry([condition |-> "unguarded_machine", description |-> "Machine guarding",
           severity |-> "medium"])
EntryHelmet == Entry([condition |-> "hardhat_missing", description |-> "Helmet"])
EntryTruck == Entry([condition |-> ProximityCondition])
EntryOrphan == Entry([description |-> "No condition"])

DocOsha ==
    JObj(<< <<"1910.178", EntryForklift>>, <<"1910.212", EntryGuard>>,
            <<"1926.100", EntryHardhat>> >>)
DocOshaRev ==
    JObj(<< <<"1926.100", EntryHardhat>>, <<"1910.212", EntryGuard>>,
            <<"1910.178", EntryForklift>> >>)
DocAnsi == JObj(<< <<"Z89.1", EntryHelmet>>, <<"B56.1", EntryTruck>>, <<"A10", EntryOrphan>> >>)
DocEmpty == JObj(<<>>)
DocBadEntry == JObj(<< <<"1926.100", EntryHardhat>>, <<"note", JStr>> >>)

Docs == {DocOsha, DocOshaRev, DocAnsi, DocEmpty, DocBadEntry, JArr, Malformed}

(***************************************************************************)
(* File names.  str.lower() and str.upper() on the names of the model.     *)
(***************************************************************************)
Stems == {"osha", "OSHA", "ansi"}

Lower(s) == CASE s = "OSHA" -> "osha"
              [] s = "ANSI" -> "ansi"
              [] OTHER -> s

Upper(s) == CASE s = "osha" -> "OSHA"
              [] s = "ansi" -> "ANSI"
              [] OTHER -> s

File(stem, ext, doc) == [stem |-> stem, ext |-> ext, doc |-> doc]

FileNames == (Stems \X {"json"}) \cup {<<"readme", "txt">>}

\* The directories of at most n files: every enumeration order of distinct names.
DirsUpTo(n, docs) ==
    {[kind |-> "dir", files |-> fl] :
        fl \in {s \in SeqsUpTo({File(nm[1], nm[2], d) : nm \in FileNames, d \in docs}, n) :
                   \A i, j \in DOMAIN s :
                       i # j => <<s[i].stem, s[i].ext>> # <<s[j].stem, s[j].ext>>}}

MissingDir == [kind |-> "missing", files |-> <<>>]
UnreadableDir == [kind |-> "unreadable", files |-> <<>>]

(***************************************************************************)
(* _load_standards: directory.glob("*.json").  pathlib yields nothing for  *)
(* a directory that does not exist or cannot be listed; it raises nothing. *)
(***************************************************************************)
IsJson(f) == f.ext = "json"

Glob(dir) == IF dir.kind = "dir" THEN SelectSeq(dir.files, IsJson) ELSE <<>>

\* self.standards[key] = data on an insertion-ordered dict: a key already
\* present keeps its place and takes the new value.
DictSet(d, key, data) ==
    IF \E i \in DOMAIN d : d[i][1] = key
    THEN [i \in DOMAIN d |-> IF d[i][1] = key THEN <<key, data>> ELSE d[i]]
    ELSE Append(d, <<key, data>>)

StandardKey(f) == Lower(f.stem)

(***************************************************************************)
(* _lookup_condition: scan every standard and every entry in dict order.   *)
(* entry.get(k, default) on an object; mapping.items() and entry.get raise *)
(* AttributeError on anything that is not an object.                       *)
(***************************************************************************)
Get(fields, key, default) == IF key \in DOMAIN fields THEN fields[key] ELSE default

Match(stdName, citation, entry) ==
    [standard |-> Upper(stdName), citation |-> citation,
     description |-> Get(entry.f, "description", ""),
     severity |-> Get(entry.f, "severity", "")]

EntryMatches(entry, condition) == Get(entry.f, "condition", "<None>") = condition

Raised == [ok |-> FALSE, matches |-> <<>>]

RECURSIVE ScanItems(_, _, _, _)
ScanItems(stdName, items, condition, acc) ==
    IF items = <<>> THEN [ok |-> TRUE, matches |-> acc]
    ELSE LET citation == Head(items)[1]
             entry == Head(items)[2]
         IN IF entry.t # "obj" THEN Raised
            ELSE ScanItems(stdName, Tail(items), condition,
                           IF EntryMatches(entry, condition)
                           THEN Append(acc, Match(stdName, citation, entry))
                           ELSE acc)

RECURSIVE ScanStandards(_, _, _)
ScanStandards(stds, condition, acc) ==
    IF stds = <<>> THEN [ok |-> TRUE, matches |-> acc]
    ELSE LET stdName == Head(stds)[1]
             mapping == Head(stds)[2]
         IN IF mapping.t # "obj" THEN Raised
            ELSE LET r == ScanItems(stdName, mapping.items, condition, acc)
                 IN IF ~r.ok THEN Raised
                    ELSE ScanStandards(Tail(stds), condition, r.matches)

\* Mutant: the scan returns after the first standard.
LookupFirstStandard(stds, condition) ==
    ScanStandards(IF stds = <<>> THEN <<>> ELSE <<Head(stds)>>, condition, <<>>)

LookupCondition(stds, condition) == ScanStandards(stds, condition, <<>>)


(***************************************************************************)
(* Detections as detect_image returns them: class_name, condition,         *)
(* confidence and bbox = <<x1, y1, x2, y2>>.                               *)
(***************************************************************************)
Det(cls, cond, conf, bbox) ==
    [class_name |-> cls, condition |-> cond, confidence |-> conf, bbox |-> bbox]

PersonA == Det("person", "person", 80, <<0, 0, 200, 200>>)            \* centre (100, 100)
PersonB == Det("person", "person", 50, <<100, 0, 300, 200>>)          \* centre (200, 100)
ForkNear == Det("forklift", "forklift", 60, <<100, 50, 200, 150>>)    \* centre (150, 100)
ForkAt == Det("forklift", "forklift", 70, <<200, 0, 400, 200>>)       \* centre (300, 100)
ForkUnder == Det("forklift", "forklift", 90, <<199, 0, 400, 200>>)    \* centre (299.5, 100)
ForkFar == Det("forklift", "forklift", 90, <<300, 0, 400, 200>>)      \* centre (350, 100)
ForkDiag == Det("forklift", "forklift", 70, <<120, 160, 320, 360>>)   \* centre (220, 260)
Hardhat == Det("hardhat_missing", "hardhat_missing", 91, <<10, 10, 50, 80>>)
Machine == Det("ungaurded_machine", "unguarded_machine", 40, <<5, 5, 9, 9>>)

Conditions ==
    {"person", "forklift", "hardhat_missing", "unguarded_machine", ProximityCondition}

(***************************************************************************)
(* evaluate: the pieces.                                                   *)
(***************************************************************************)
Threshold == 200

\* _bbox_center, doubled: (x1 + x2, y1 + y2) stands for ((x1+x2)/2, (y1+y2)/2).
BboxCenter2(bbox) == <<bbox[1] + bbox[3], bbox[2] + bbox[4]>>

\* _euclidean_distance, squared, on doubled centres: 4 * distance^2.
Distance2x4(p1, p2) ==
    (p1[1] - p2[1]) * (p1[1] - p2[1]) + (p1[2] - p2[2]) * (p1[2] - p2[2])

\* Mutant: distance <= threshold.
WithinThresholdInclusive(person, forklift) ==
    Distance2x4(BboxCenter2(person.bbox), BboxCenter2(forklift.bbox))
        <= 4 * Threshold * Threshold

\* distance < threshold
WithinThreshold(person, forklift) ==
    Distance2x4(BboxCenter2(person.bbox), BboxCenter2(forklift.bbox))
        < 4 * Threshold * Threshold

Min(a, b) == IF a <= b THEN a ELSE b

IsPerson(d) == d.condition = "person"
IsForklift(d) == d.condition = "forklift"

DirectViolation(match, det) ==
    [standard |-> match.standard, citation |-> match.citation,
     description |-> match.description, severity |-> match.severity,
     confidence |-> det.confidence,
     evidence |-> [bbox |-> det.bbox, class_name |-> det.class_name]]

\* Mutant: the larger of the two confidences.
ProximityConfidenceMax(person, forklift) ==
    IF person.confidence >= forklift.confidence
    THEN person.confidence ELSE forklift.confidence

ProximityConfidence(person, forklift) == Min(person.confidence, forklift.confidence)

CompoundViolation(match, person, forklift) ==
    [standard |-> match.standard, citation |-> match.citation,
     description |-> match.description, severity |-> match.severity,
     confidence |-> ProximityConfidence(person, forklift),
     evidence |-> [person_bbox |-> person.bbox, forklift_bbox |-> forklift.bbox]]

(***************************************************************************)
(* One evaluate() frame.  pc: "idle" (no request), "direct" (the loop over *)
(* detections, at index i), "prox" (the nested loops, at persons[pi] and   *)
(* forklifts[fi]), "returned", "raised".                                   *)
(***************************************************************************)
IdleFrame ==
    [pc |-> "idle", detections |-> <<>>, i |-> 1, persons |-> <<>>, forklifts |-> <<>>,
     pi |-> 1, fi |-> 1, violations |-> <<>>]

RaisedFrame(fr) == [fr EXCEPT !.pc = "raised", !.violations = <<>>]

\* What the caller of evaluate gets: the list, or the exception.
Outcome(fr) == [ok |-> fr.pc = "returned", violations |-> fr.violations]

Finished(fr) == fr.pc \in {"returned", "raised"}

(***************************************************************************)
(* create_app: engine = ViolationEngine(standards_dir).                    *)
(***************************************************************************)
CreateApp ==
    /\ app = "start"
    /\ app' = "loading"
    /\ standards' = <<>>
    /\ loadIdx' = 1
    /\ UNCHANGED <<fs, calls, lastLookup, remembered>>

\* One iteration of the loop of _load_standards on a document that parses.
LoadFile ==
    /\ app = "loading"
    /\ loadIdx <= Len(Glob(fs))
    /\ LET f == Glob(fs)[loadIdx]
       IN /\ f.doc # Malformed
          /\ standards' = DictSet(standards, StandardKey(f), f.doc)
    /\ loadIdx' = loadIdx + 1
    /\ UNCHANGED <<fs, app, calls, lastLookup, remembered>>

\* json.load raises: the exception leaves __init__ and create_app.
LoadRaise ==
    /\ app = "loading"
    /\ loadIdx <= Len(Glob(fs))
    /\ Glob(fs)[loadIdx].doc = Malformed
    /\ app' = "failed"
    /\ UNCHANGED <<fs, standards, loadIdx, calls, lastLookup, remembered>>

\* The loop ends: the engine is constructed, the routes are registered.
LoadDone ==
    /\ app = "loading"
    /\ loadIdx > Len(Glob(fs))
    /\ app' = "serving"
    /\ UNCHANGED <<fs, standards, loadIdx, calls, lastLookup, remembered>>

\* A call of _lookup_condition on the constructed engine.
Lookup(condition) ==
    /\ app = "serving"
    /\ LET r == LookupCondition(standards, condition)
       IN lastLookup' = [t |-> "lookup", condition |-> condition,
                         ok |-> r.ok, matches |-> r.matches]
    /\ UNCHANGED <<fs, app, standards, loadIdx, calls, remembered>>

(***************************************************************************)
(* upload / capture: detections arrive and engine.evaluate(detections)     *)
(* starts in request slot c.                                               *)
(***************************************************************************)
\* Mutant: the violations list is one list shared by all calls.
SetFrameShared(c, fr) ==
    calls' = [x \in DOMAIN calls |->
                 IF x = c THEN fr
                 ELSE IF calls[x].pc = "idle" THEN calls[x]
                 ELSE [calls[x] EXCEPT !.violations = fr.violations]]

SetFrame(c, fr) == calls' = [calls EXCEPT ![c] = fr]

\* violations = [] and the other locals of a new call.
NewFrame(dets) == [IdleFrame EXCEPT !.pc = "direct", !.detections = dets]

Upload(c, inputs) ==
    /\ app = "serving"
    /\ calls[c].pc = "idle"
    /\ \E dets \in inputs : SetFrame(c, NewFrame(dets))
    /\ UNCHANGED <<fs, app, standards, loadIdx, lastLookup, remembered>>

\* for det in detections: look the condition up, append one violation per match.
DirectFrame(fr, stds) ==
    LET det == fr.detections[fr.i]
        r == LookupCondition(stds, det.condition)
    IN IF ~r.ok THEN RaisedFrame(fr)
       ELSE [fr EXCEPT
                !.violations = @ \o [k \in DOMAIN r.matches |->
                                        DirectViolation(r.matches[k], det)],
                !.i = @ + 1]

\* Mutant: the lookup leaves the engine's standards reordered.
DirectStepReordering(c) ==
    /\ calls[c].pc = "direct"
    /\ calls[c].i <= Len(calls[c].detections)
    /\ SetFrame(c, DirectFrame(calls[c], standards))
    /\ standards' = Reverse(standards)
    /\ UNCHANGED <<fs, app, loadIdx, lastLookup, remembered>>

DirectStep(c) ==
    /\ calls[c].pc = "direct"
    /\ calls[c].i <= Len(calls[c].detections)
    /\ SetFrame(c, DirectFrame(calls[c], standards))
    /\ UNCHANGED <<fs, app, standards, loadIdx, lastLookup, remembered>>

\* persons, forklifts = the two filters; "if persons and forklifts".
PartitionFrame(fr) ==
    LET ps == SelectSeq(fr.detections, IsPerson)
        fks == SelectSeq(fr.detections, IsForklift)
    IN [fr EXCEPT !.persons = ps, !.forklifts = fks,
                  !.pc = IF ps # <<>> /\ fks # <<>> THEN "prox" ELSE "returned"]

Partition(c) ==
    /\ calls[c].pc = "direct"
    /\ calls[c].i > Len(calls[c].detections)
    /\ SetFrame(c, PartitionFrame(calls[c]))
    /\ UNCHANGED <<fs, app, standards, loadIdx, lastLookup, remembered>>

\* Mutant: the loops nested the other way round, persons inner.
AdvancePersonsInner(fr) ==
    IF fr.pi < Len(fr.persons) THEN [fr EXCEPT !.pi = @ + 1]
    ELSE IF fr.fi < Len(fr.forklifts) THEN [fr EXCEPT !.fi = @ + 1, !.pi = 1]
    ELSE [fr EXCEPT !.pc = "returned"]

\* The loops' next position after (pi, fi): forklifts inner, persons outer.
Advance(fr) ==
    IF fr.fi < Len(fr.forklifts) THEN [fr EXCEPT !.fi = @ + 1]
    ELSE IF fr.pi < Len(fr.persons) THEN [fr EXCEPT !.pi = @ + 1, !.fi = 1]
    ELSE [fr EXCEPT !.pc = "returned"]

\* One iteration of the inner loop, for the pair (persons[pi], forklifts[fi]).
ProxFrame(fr, stds) ==
    LET person == fr.persons[fr.pi]
        forklift == fr.forklifts[fr.fi]
    IN IF ~WithinThreshold(person, forklift) THEN Advance(fr)
       ELSE LET r == LookupCondition(stds, ProximityCondition)
            IN IF ~r.ok THEN RaisedFrame(fr)
               ELSE Advance([fr EXCEPT
                        !.violations = @ \o [k \in DOMAIN r.matches |->
                            CompoundViolation(r.matches[k], person, forklift)]])

\* Mutant: the engine keeps the pair's matches in its standards, as a cache.
ProxStepCaching(c) ==
    /\ calls[c].pc = "prox"
    /\ SetFrame(c, ProxFrame(calls[c], standards))
    /\ standards' = DictSet(standards, "cache", JObj(<<>>))
    /\ UNCHANGED <<fs, app, loadIdx, lastLookup, remembered>>

ProxStep(c) ==
    /\ calls[c].pc = "prox"
    /\ SetFrame(c, ProxFrame(calls[c], standards))
    /\ UNCHANGED <<fs, app, standards, loadIdx, lastLookup, remembered>>

\* jsonify(...) of the list, or the error response: the frame is gone.
Respond(c) ==
    /\ Finished(calls[c])
    /\ SetFrame(c, IdleFrame)
    /\ UNCHANGED <<fs, app, standards, loadIdx, lastLookup, remembered>>

\* The same, the observer keeping this call to compare a later one with.
RespondRemember(c) ==
    /\ Finished(calls[c])
    /\ remembered' = [t |-> "call", detections |-> calls[c].detections,
                      outcome |-> Outcome(calls[c])]
    /\ SetFrame(c, IdleFrame)
    /\ UNCHANGED <<fs, app, standards, loadIdx, lastLookup>>

EvaluateStep(c) == DirectStep(c) \/ Partition(c) \/ ProxStep(c)

Load == CreateApp \/ LoadFile \/ LoadRaise \/ LoadDone

(***************************************************************************)
(* Specifications.                                                         *)
(***************************************************************************)
InitWith(dirs, slots) ==
    /\ fs \in dirs
    /\ app = "start"
    /\ standards = <<>>
    /\ loadIdx = 1
    /\ calls = [c \in slots |-> IdleFrame]
    /\ lastLookup = None
    /\ remembered = None

\* Loading and lookup: every directory of at most MaxFiles files.
LoadDirs == DirsUpTo(MaxFiles, Docs) \cup {MissingDir, UnreadableDir}

Init == InitWith(LoadDirs, {})

Next == Load \/ \E condition \in Conditions : Lookup(condition)

Spec == Init /\ [][Next]_vars

\* Evaluation, one call at a time.
DirOf(files) == [kind |-> "dir", files |-> files]

EvalDirs ==
    {DirOf(<<File("osha", "json", DocOsha), File("ansi", "json", DocAnsi)>>),
     DirOf(<<File("ansi", "json", DocAnsi), File("osha", "json", DocOshaRev)>>),
     DirOf(<<File("ansi", "json", DocEmpty), File("readme", "txt", Malformed)>>),
     DirOf(<<File("osha", "json", DocOsha), File("ansi", "json", DocBadEntry)>>),
     DirOf(<<File("osha", "json", JArr)>>),
     DirOf(<<File("osha", "json", DocOsha), File("ansi", "json", Malformed)>>),
     DirOf(<<>>),
     MissingDir,
     UnreadableDir}

EvalDetections ==
    {PersonA, PersonB, ForkNear, ForkAt, ForkUnder, ForkFar, ForkDiag, Hardhat, Machine}

InitEval == InitWith(EvalDirs, {1})

NextEval ==
    \/ Load
    \/ Upload(1, SeqsUpTo(EvalDetections, MaxDets))
    \/ EvaluateStep(1)
    \/ Respond(1)

SpecEval == InitEval /\ [][NextEval]_vars

\* Evaluation with enough detections for two persons and two forklifts.
OrderDetections == {PersonA, PersonB, ForkNear, ForkUnder, Hardhat, Machine}

OrderDirs ==
    {DirOf(<<File("osha", "json", DocOsha), File("ansi", "json", DocAnsi)>>),
     DirOf(<<File("ansi", "json", DocAnsi), File("osha", "json", DocOshaRev)>>),
     DirOf(<<File("ansi", "json", JArr), File("osha", "json", Malformed)>>)}

InitOrder == InitWith(OrderDirs, {1})

NextOrder ==
    \/ Load
    \/ Upload(1, SeqsUpTo(OrderDetections, MaxOrderDets))
    \/ EvaluateStep(1)
    \/ Respond(1)

SpecOrder == InitOrder /\ [][NextOrder]_vars

\* Evaluation, a call compared with an earlier one, and lookups in between.
RepeatDirs ==
    {DirOf(<<File("osha", "json", DocOsha), File("ansi", "json", DocAnsi)>>),
     DirOf(<<File("ansi", "json", DocAnsi), File("osha", "json", DocOshaRev)>>),
     DirOf(<<File("osha", "json", DocOsha), File("ansi", "json", DocBadEntry)>>),
     DirOf(<<File("osha", "json", Malformed)>>),
     MissingDir}

RepeatDetections == {PersonA, ForkNear, Hardhat}

InitRepeat == InitWith(RepeatDirs, {1})

NextRepeat ==
    \/ Load
    \/ Upload(1, SeqsUpTo(RepeatDetections, MaxRepeatDets))
    \/ EvaluateStep(1)
    \/ Respond(1)
    \/ RespondRemember(1)
    \/ \E condition \in {"hardhat_missing", ProximityCondition} : Lookup(condition)

SpecRepeat == InitRepeat /\ [][NextRepeat]_vars

\* Evaluation, two requests at a time, their steps interleaved.
Slots == {1, 2}

InitConc == InitWith(RepeatDirs, Slots)

NextConc ==
    \/ Load
    \/ \E c \in Slots :
           \/ Upload(c, SeqsUpTo(RepeatDetections, MaxConcDets))
           \/ EvaluateStep(c)
           \/ Respond(c)

SpecConc == InitConc /\ [][NextConc]_vars

(***************************************************************************)
(* What the claims speak of.                                               *)
(***************************************************************************)
\* The rule entries the engine holds, each with the standard it is filed under.
EntriesOf(std) ==
    IF std[2].t # "obj" THEN {}
    ELSE {[standard |-> Upper(std[1]), citation |-> it[1], entry |-> it[2]] :
             it \in {x \in Range(std[2].items) : x[2].t = "obj"}}

LoadedEntries == UNION {EntriesOf(standards[s]) : s \in DOMAIN standards}

EntriesFor(condition) ==
    {e \in LoadedEntries :
        "condition" \in DOMAIN e.entry.f /\ e.entry.f.condition = condition}

FieldOr(e, key) == IF key \in DOMAIN e.entry.f THEN e.entry.f[key] ELSE ""

IsDirect(v) == DOMAIN v.evidence = {"bbox", "class_name"}
IsCompound(v) == DOMAIN v.evidence = {"person_bbox", "forklift_bbox"}

Returned(c) == calls[c].pc = "returned"

\* The direct violation the contract asks for, for entry e and detection d.
DirectFor(e, d) ==
    [standard |-> e.standard, citation |-> e.citation,
     description |-> FieldOr(e, "description"), severity |-> FieldOr(e, "severity"),
     confidence |-> d.confidence,
     evidence |-> [bbox |-> d.bbox, class_name |-> d.class_name]]

\* The compound violation the contract asks for, for entry e, person p, forklift f.
CompoundFor(e, p, f) ==
    [standard |-> e.standard, citation |-> e.citation,
     description |-> FieldOr(e, "description"), severity |-> FieldOr(e, "severity"),
     confidence |-> IF p.confidence < f.confidence THEN p.confidence ELSE f.confidence,
     evidence |-> [person_bbox |-> p.bbox, forklift_bbox |-> f.bbox]]

\* Index pairs (person, forklift) of a detection list.
Pairs(dets) ==
    {pr \in (DOMAIN dets) \X (DOMAIN dets) :
        dets[pr[1]].condition = "person" /\ dets[pr[2]].condition = "forklift"}

\* Four times the squared distance of the centres of two boxes.
CentreGap2x4(b1, b2) ==
    ((b1[1] + b1[3]) - (b2[1] + b2[3])) * ((b1[1] + b1[3]) - (b2[1] + b2[3]))
    + ((b1[2] + b1[4]) - (b2[2] + b2[4])) * ((b1[2] + b1[4]) - (b2[2] + b2[4]))

Closer(p, f) == CentreGap2x4(p.bbox, f.bbox) < 4 * Threshold * Threshold

ClosePairs(dets) == {pr \in Pairs(dets) : Closer(dets[pr[1]], dets[pr[2]])}

(***************************************************************************)
(* C1.  Direct matching.  When evaluate returns, for every input detection *)
(* d and every loaded entry e whose condition is d's, the output holds the *)
(* direct violation of e and d (e's standard, citation, description and    *)
(* severity, d's confidence, d's bbox and class_name) once per occurrence  *)
(* of d in the input; and the direct violations number the sum over the    *)
(* detections of the entries matching each, so a detection without an      *)
(* entry contributes none.                                                 *)
(***************************************************************************)
C1_DirectMatching ==
    \A c \in DOMAIN calls :
        Returned(c) =>
            LET dets == calls[c].detections
                out == calls[c].violations
            IN /\ \A d \in Range(dets) : \A e \in EntriesFor(d.condition) :
                      Count(out, DirectFor(e, d)) = Count(dets, d)
               /\ Len(SelectSeq(out, IsDirect))
                      = Cardinality({ie \in (DOMAIN dets) \X LoadedEntries :
                                        ie[2] \in EntriesFor(dets[ie[1]].condition)})

\* A call returned for a hardhat detection with two entries and a person with none.
C1_Witness ==
    /\ Returned(1)
    /\ calls[1].detections = <<PersonA, Hardhat, Hardhat>>
    /\ Cardinality(EntriesFor("hardhat_missing")) = 2
    /\ EntriesFor("person") = {}
    /\ Len(SelectSeq(calls[1].violations, IsDirect)) = 4

(***************************************************************************)
(* C2.  Compound matching.  When evaluate returns, for every person p and  *)
(* forklift f of the input whose centres are closer than the threshold and *)
(* every loaded entry e for forklift_pedestrian_proximity, the output      *)
(* holds the compound violation of e, p and f (confidence the smaller of   *)
(* the two, evidence the two boxes) once per such pair; and the compound   *)
(* violations number the close pairs times those entries, so none is       *)
(* emitted without a person, without a forklift or without such an entry.  *)
(***************************************************************************)
C2_CompoundMatching ==
    \A c \in DOMAIN calls :
        Returned(c) =>
            LET dets == calls[c].detections
                out == calls[c].violations
                close == ClosePairs(dets)
            IN /\ \A pr \in close : \A e \in EntriesFor(ProximityCondition) :
                      Count(out, CompoundFor(e, dets[pr[1]], dets[pr[2]]))
                          = Cardinality({q \in close : /\ dets[q[1]] = dets[pr[1]]
                                                       /\ dets[q[2]] = dets[pr[2]]})
               /\ Len(SelectSeq(out, IsCompound))
                      = Cardinality(close) * Cardinality(EntriesFor(ProximityCondition))

\* A call returned with two compound violations for one close pair, the
\* forklift (60) the less confident of the two (the person: 80).
C2_Witness ==
    /\ Returned(1)
    /\ calls[1].detections = <<ForkNear, PersonA, Hardhat>>
    /\ Cardinality(EntriesFor(ProximityCondition)) = 2
    /\ \E k \in DOMAIN calls[1].violations :
           /\ IsCompound(calls[1].violations[k])
           /\ calls[1].violations[k].confidence = 60

(***************************************************************************)
(* C3.  Threshold boundary.  When evaluate returns from an engine holding  *)
(* an entry for forklift_pedestrian_proximity, the output holds a compound *)
(* violation for the boxes of a person and a forklift of the input exactly *)
(* when the distance of their centres is strictly below the threshold:     *)
(* none at exactly 200 (on an axis or on the diagonal 120, 160) or above,  *)
(* one per entry at 199.5 and at 50.                                       *)
(***************************************************************************)
HasCompound(out, p, f) ==
    \E k \in DOMAIN out :
        /\ IsCompound(out[k])
        /\ out[k].evidence.person_bbox = p.bbox
        /\ out[k].evidence.forklift_bbox = f.bbox

C3_ThresholdBoundary ==
    \A c \in DOMAIN calls :
        (Returned(c) /\ EntriesFor(ProximityCondition) # {}) =>
            LET dets == calls[c].detections
                out == calls[c].violations
            IN /\ \A pr \in Pairs(dets) :
                      HasCompound(out, dets[pr[1]], dets[pr[2]])
                          <=> CentreGap2x4(dets[pr[1]].bbox, dets[pr[2]].bbox)
                                  < 4 * Threshold * Threshold
               /\ PersonA \in Range(dets) =>
                      /\ \A f \in Range(dets) \cap {ForkAt, ForkDiag, ForkFar} :
                             ~HasCompound(out, PersonA, f)
                      /\ \A f \in Range(dets) \cap {ForkUnder, ForkNear} :
                             HasCompound(out, PersonA, f)

\* A call returned for a person, a forklift at exactly the threshold and one
\* just below it.
C3_Witness ==
    /\ Returned(1)
    /\ EntriesFor(ProximityCondition) # {}
    /\ calls[1].detections = <<PersonA, ForkAt, ForkUnder>>
    /\ CentreGap2x4(PersonA.bbox, ForkAt.bbox) = 4 * Threshold * Threshold
    /\ HasCompound(calls[1].violations, PersonA, ForkUnder)
    /\ ~HasCompound(calls[1].violations, PersonA, ForkAt)

(***************************************************************************)
(* C4.  Output ordering.  When evaluate returns, its output is: for each   *)
(* detection in input order, its direct violations in lookup order; then   *)
(* for each person in input order and, within it, each forklift in input   *)
(* order, the pair's compound violations in lookup order.  So no compound  *)
(* violation precedes a direct one.                                        *)
(***************************************************************************)
LookupOrder(condition) == LookupCondition(standards, condition).matches

ViolationOf(m, confidence, evidence) ==
    [standard |-> m.standard, citation |-> m.citation, description |-> m.description,
     severity |-> m.severity, confidence |-> confidence, evidence |-> evidence]

ExpectedDirect(dets) ==
    Concat([i \in DOMAIN dets |->
        [k \in DOMAIN LookupOrder(dets[i].condition) |->
            ViolationOf(LookupOrder(dets[i].condition)[k], dets[i].confidence,
                        [bbox |-> dets[i].bbox, class_name |-> dets[i].class_name])]])

\* The pairs, persons in input order, each with the forklifts in input order.
PairOrder(dets) ==
    LET ps == SelectSeq(dets, LAMBDA d : d.condition = "person")
        fks == SelectSeq(dets, LAMBDA d : d.condition = "forklift")
    IN Concat([a \in DOMAIN ps |-> [b \in DOMAIN fks |-> <<ps[a], fks[b]>>]])

ExpectedCompound(dets) ==
    Concat([q \in DOMAIN PairOrder(dets) |->
        LET p == PairOrder(dets)[q][1]
            f == PairOrder(dets)[q][2]
        IN IF Closer(p, f)
           THEN [k \in DOMAIN LookupOrder(ProximityCondition) |->
                    ViolationOf(LookupOrder(ProximityCondition)[k],
                                IF p.confidence < f.confidence
                                THEN p.confidence ELSE f.confidence,
                                [person_bbox |-> p.bbox, forklift_bbox |-> f.bbox])]
           ELSE <<>>])

C4_OutputOrdering ==
    \A c \in DOMAIN calls :
        Returned(c) =>
            LET dets == calls[c].detections
                out == calls[c].violations
            IN /\ out = ExpectedDirect(dets) \o ExpectedCompound(dets)
               /\ \A i, j \in DOMAIN out :
                      (i < j /\ IsCompound(out[i])) => IsCompound(out[j])

\* A call returned for two persons and two forklifts, all four pairs close,
\* the forklifts between the persons in the input: eight compound
\* violations, the first person's four first.
C4_Witness ==
    /\ Returned(1)
    /\ calls[1].detections = <<PersonA, ForkNear, PersonB, ForkUnder>>
    /\ Len(calls[1].violations) = 8
    /\ \A k \in 1..4 : calls[1].violations[k].evidence.person_bbox = PersonA.bbox
    /\ calls[1].violations[3].evidence.forklift_bbox = ForkUnder.bbox

(***************************************************************************)
(* C5.  Lookup completeness.  On a constructed engine, a lookup of c that  *)
(* returns gives exactly the entries with condition c of every rule        *)
(* document (a .json file) of the directory, each once, under its         *)
(* base name as standard; nothing when no document has such an entry.      *)
(***************************************************************************)
\* The rule documents of the directory that hold entries.
RuleDocuments ==
    {i \in DOMAIN fs.files : fs.files[i].ext = "json" /\ fs.files[i].doc.t = "obj"}

\* The entries with the condition, as (document, position in it).
DocumentEntries(condition) ==
    UNION {{<<i, k>> : k \in {x \in DOMAIN fs.files[i].doc.items :
                                LET entry == fs.files[i].doc.items[x][2]
                                IN /\ entry.t = "obj"
                                   /\ "condition" \in DOMAIN entry.f
                                   /\ entry.f.condition = condition}} :
           i \in RuleDocuments}

RowOf(ik) ==
    LET f == fs.files[ik[1]]
        it == f.doc.items[ik[2]]
    IN [standard |-> Upper(f.stem), citation |-> it[1],
        description |-> IF "description" \in DOMAIN it[2].f THEN it[2].f.description ELSE "",
        severity |-> IF "severity" \in DOMAIN it[2].f THEN it[2].f.severity ELSE ""]

LookupReturned == lastLookup.t = "lookup" /\ lastLookup.ok

C5_LookupComplete ==
    LookupReturned =>
        LET want == DocumentEntries(lastLookup.condition)
            got == lastLookup.matches
        IN /\ Len(got) = Cardinality(want)
           /\ \A ik \in want :
                  Count(got, RowOf(ik)) = Cardinality({x \in want : RowOf(x) = RowOf(ik)})

(***************************************************************************)
(* C6.  Lookup order.  On a constructed engine, a lookup that returns      *)
(* gives its entries sorted by standard name, then citation id, both       *)
(* lexicographically (so the order does not depend on the order the        *)
(* directory or a document lists them in).                                 *)
(***************************************************************************)
\* The names of the model in lexicographic (code point) order.
LexOrder ==
    <<"", "1910.178", "1910.212", "1926.100", "A10", "ANSI", "B56.1", "OSHA", "Z89.1",
      "ansi", "note", "osha", "readme">>

Rank(str) == CHOOSE k \in DOMAIN LexOrder : LexOrder[k] = str

RowBefore(m1, m2) ==
    \/ Rank(m1.standard) < Rank(m2.standard)
    \/ m1.standard = m2.standard /\ Rank(m1.citation) <= Rank(m2.citation)

C6_LookupSorted ==
    LookupReturned =>
        \A i, j \in DOMAIN lastLookup.matches :
            i < j => RowBefore(lastLookup.matches[i], lastLookup.matches[j])

(***************************************************************************)
(* C7.  Load failure is fatal and total.  With the directory missing or    *)
(* unreadable, or a rule document in it malformed, no engine is ever       *)
(* constructed and no evaluate call ever runs; a constructed engine holds  *)
(* every rule document of its directory.                                   *)
(***************************************************************************)
LoadMustFail ==
    \/ fs.kind # "dir"
    \/ \E f \in Range(fs.files) : f.ext = "json" /\ f.doc = Malformed

C7_LoadFailureFatal ==
    /\ LoadMustFail => (app # "serving" /\ \A c \in DOMAIN calls : calls[c].pc = "idle")
    /\ app = "serving" =>
           \A f \in Range(fs.files) :
               f.ext = "json" => \E s \in DOMAIN standards : standards[s][2] = f.doc

(***************************************************************************)
(* C8.  Evaluation is total.  On a constructed engine no evaluate call     *)
(* ever raises, and a call with no detections returns the empty list.      *)
(***************************************************************************)
C8_EvaluationTotal ==
    \A c \in DOMAIN calls :
        /\ calls[c].pc # "raised"
        /\ (Returned(c) /\ calls[c].detections = <<>>) => calls[c].violations = <<>>

(***************************************************************************)
(* C9.  Determinism.  A finished evaluate call has the outcome of any      *)
(* earlier call of the same engine with the same detections, whatever      *)
(* calls ran in between; and a lookup made earlier gave what a lookup of   *)
(* the same condition gives now.                                           *)
(***************************************************************************)
C9_Deterministic ==
    /\ \A c \in DOMAIN calls :
           (/\ remembered.t = "call"
            /\ Finished(calls[c])
            /\ remembered.detections = calls[c].detections)
               => Outcome(calls[c]) = remembered.outcome
    /\ lastLookup.t = "lookup" =>
           LET now == LookupCondition(standards, lastLookup.condition)
           IN lastLookup.ok = now.ok /\ lastLookup.matches = now.matches

\* A call returned two violations for the detections an earlier call had,
\* after a lookup.
C9_Witness ==
    /\ remembered.t = "call"
    /\ lastLookup.t = "lookup"
    /\ Returned(1)
    /\ calls[1].detections = <<Hardhat>>
    /\ remembered.detections = <<Hardhat>>
    /\ Len(calls[1].violations) = 2

(***************************************************************************)
(* C10.  Concurrent evaluation.  With two evaluate calls in flight on one  *)
(* engine, under every interleaving of their steps: each call's locals are *)
(* at every moment what the call has when run alone on its detections, so  *)
(* a finished call has the outcome of the run alone; and a call in flight  *)
(* can always take its next step, whatever the other call is doing.        *)
(***************************************************************************)
\* The frame after one step of evaluate.
StepAlone(fr) ==
    IF fr.pc = "prox" THEN ProxFrame(fr, standards)
    ELSE IF fr.i <= Len(fr.detections) THEN DirectFrame(fr, standards)
    ELSE PartitionFrame(fr)

\* The frames a call passes through when run alone, from fr on.
RECURSIVE FramesAlone(_)
FramesAlone(fr) == IF Finished(fr) THEN {fr} ELSE {fr} \cup FramesAlone(StepAlone(fr))

InFlight(c) == calls[c].pc \in {"direct", "prox"}

C10_ConcurrentSafe ==
    \A c \in DOMAIN calls :
        /\ calls[c].pc # "idle" =>
               LET alone == FramesAlone(NewFrame(calls[c].detections))
               IN /\ calls[c] \in alone
                  /\ Finished(calls[c]) =>
                         \A fr \in alone : Finished(fr) => Outcome(fr) = Outcome(calls[c])
        /\ InFlight(c) => ENABLED EvaluateStep(c)

\* One call has returned two compound violations while the other, started
\* on other detections, is half way through its direct loop.
C10_Witness ==
    /\ Returned(1)
    /\ calls[1].detections = <<PersonA, ForkNear>>
    /\ Len(calls[1].violations) = 2
    /\ calls[2].pc = "direct"
    /\ calls[2].detections = <<Hardhat, Hardhat>>
    /\ calls[2].i = 2
    /\ Len(calls[2].violations) = 2

(***************************************************************************)
(* C11.  The rule store is frozen after construction.  Once the engine is  *)
(* constructed, after any sequence of evaluate and lookup calls its        *)
(* standards are what the load built from the directory: every standard    *)
(* name, in the order first loaded, with the document last loaded under    *)
(* it, entry for entry.  And nothing of a finished evaluation stays        *)
(* behind: a request slot without a call in it holds no detections and no  *)
(* violations.                                                             *)
(***************************************************************************)
\* The rule documents in the order the directory lists them.
Listed == SelectSeq(fs.files, LAMBDA f : fs.kind = "dir" /\ f.ext = "json")

\* The positions in Listed that bring a standard name not seen before.
FirstOfName == {i \in DOMAIN Listed :
                   \A j \in 1..(i - 1) : Lower(Listed[j].stem) # Lower(Listed[i].stem)}

\* The last position in Listed with the standard name of position i.
LastOfName(i) ==
    CHOOSE j \in DOMAIN Listed :
        /\ Lower(Listed[j].stem) = Lower(Listed[i].stem)
        /\ \A x \in DOMAIN Listed :
               Lower(Listed[x].stem) = Lower(Listed[i].stem) => x <= j

C11_StoreFrozen ==
    app = "serving" =>
        /\ Len(standards) = Cardinality(FirstOfName)
        /\ \A i \in FirstOfName :
               standards[Cardinality({j \in FirstOfName : j <= i})]
                   = <<Lower(Listed[i].stem), Listed[LastOfName(i)].doc>>
        /\ \A c \in DOMAIN calls : calls[c].pc = "idle" => calls[c] = IdleFrame

\* After an earlier call, a lookup and a second call that found a close pair
\* and returned two compound violations, with its slot free again.
C11_Witness ==
    /\ app = "serving"
    /\ Len(standards) = 2
    /\ remembered.t = "call"
    /\ remembered.detections = <<PersonA, ForkNear>>
    /\ Len(remembered.outcome.violations) = 2
    /\ lastLookup.t = "lookup"
    /\ calls[1].pc = "idle"

=============================================================================
